---- MODULE Spec2Model ----
(***************************************************************************)
(* repoinit: the credential-resolution chain of src/main.go                *)
(* (resolveGitHubToken), its Token Store (readStoredToken /                *)
(* writeStoredToken), the gh CLI delegate (tryGhToken / tryGhWebLogin) and *)
(* the OAuth device flow (runDeviceFlow / pollDeviceToken), and the steps   *)
(* main takes once it has the credential (repository creation, git).       *)
(*                                                                         *)
(* Strings are sequences of one-character strings, so that                 *)
(* strings.TrimSpace is computed, not assumed.                             *)
(***************************************************************************)
EXTENDS Integers, Sequences, FiniteSets, TLC

\* ------------------------------------------------------------------ bounds
\* longest raw string (environment value, file content, command output)
MaxLen == 2
\* resolve calls (program runs) in one behaviour
MaxCalls == 2

\* ----------------------------------------------------------------- strings
Space == {" ", "\n"}
Chars == {"a"} \cup Space

StrsOfLen(k) == [1..k -> Chars]
\* every string up to MaxLen, and two longer ones: whitespace on both sides,
\* whitespace inside
Strs == UNION {StrsOfLen(k) : k \in 0..MaxLen}
        \cup {<<" ", "a", "\n">>, <<"a", " ", "a">>}

\* strings.TrimSpace, as used at main.go:151,177,210,221,233,363
RECURSIVE TrimLeft(_)
TrimLeft(s) ==
    IF s = <<>> THEN s
    ELSE IF Head(s) \in Space THEN TrimLeft(Tail(s)) ELSE s

RECURSIVE TrimRight(_)
TrimRight(s) ==
    IF s = <<>> THEN s
    ELSE IF s[Len(s)] \in Space THEN TrimRight(SubSeq(s, 1, Len(s) - 1)) ELSE s

TrimSpace(s) == TrimRight(TrimLeft(s))

\* a Credential in the sense of the data model: non-empty, no outer whitespace
IsCredential(s) == s # <<>> /\ Head(s) \notin Space /\ s[Len(s)] \notin Space

\* ------------------------------------------------------------- file system
\* A mode is the set of permission classes it grants: owner read, write,
\* execute/traverse, and "o" for any group or other bit.
Mode0700 == {"r", "w", "x"}
Mode0600 == {"r", "w"}
DirModes == {Mode0700, {"r", "w", "x", "o"}, {"r", "x"}, {"r", "w"}}
FileModes == {Mode0600, {"r", "w", "o"}, {"w"}, {"r"}}

NoFile == [exists |-> FALSE, mode |-> {}, data |-> <<>>]
NoDir == [exists |-> FALSE, mode |-> {}]

\* The states <user-config-dir>/repoinit/token can be in when the program
\* starts: home = os.UserConfigDir succeeds, canMkdir = the directory can be
\* created under the user config dir.
\* Without a user config dir nothing below it matters. Under the modes the
\* program itself creates the file holds any string; an unusual mode is taken
\* on the directory or on the file, not on both, with an empty file or a
\* stored token.
UsualModes == <<Mode0700, Mode0600>>
UnusualModes == ({<<dm, Mode0600>> : dm \in DirModes}
                 \cup {<<Mode0700, fm>> : fm \in FileModes}) \ {UsualModes}
FsStates ==
    {[home |-> FALSE, canMkdir |-> FALSE, dir |-> NoDir, file |-> NoFile]}
    \cup
    {[home |-> TRUE, canMkdir |-> c, dir |-> NoDir, file |-> NoFile] : c \in BOOLEAN}
    \cup
    {[home |-> TRUE, canMkdir |-> TRUE, dir |-> [exists |-> TRUE, mode |-> dm],
      file |-> NoFile] : dm \in DirModes}
    \cup
    {[home |-> TRUE, canMkdir |-> TRUE, dir |-> [exists |-> TRUE, mode |-> Mode0700],
      file |-> [exists |-> TRUE, mode |-> Mode0600, data |-> d]] : d \in Strs}
    \cup
    {[home |-> TRUE, canMkdir |-> TRUE, dir |-> [exists |-> TRUE, mode |-> m[1]],
      file |-> [exists |-> TRUE, mode |-> m[2], data |-> d]] :
        m \in UnusualModes, d \in {<<>>, <<"a", "\n">>}}

\* configTokenPath
configTokenPath(f) == IF f.home THEN "nil" ELSE "noconfigdir"

\* os.ReadFile(path)
ReadFile(f) ==
    IF f.dir.exists /\ "x" \in f.dir.mode /\ f.file.exists /\ "r" \in f.file.mode
    THEN [data |-> f.file.data, err |-> "nil"]
    ELSE [data |-> <<>>, err |-> "readfile"]

\* the value readStoredToken returns for file content that was read
StoredValue(data) == TrimSpace(data)

\* readStoredToken
readStoredToken(f) ==
    IF configTokenPath(f) # "nil" THEN [token |-> <<>>, err |-> configTokenPath(f)]
    ELSE IF ReadFile(f).err # "nil" THEN [token |-> <<>>, err |-> ReadFile(f).err]
    ELSE [token |-> StoredValue(ReadFile(f).data), err |-> "nil"]

\* os.MkdirAll(dir, 0o700): an existing directory is left as it is
MkdirAll(f) ==
    IF f.dir.exists THEN [fs |-> f, err |-> "nil"]
    ELSE IF f.canMkdir
         THEN [fs |-> [f EXCEPT !.dir = [exists |-> TRUE, mode |-> Mode0700]],
               err |-> "nil"]
         ELSE [fs |-> f, err |-> "mkdir"]

\* os.WriteFile(path, data, 0o600): O_WRONLY|O_CREATE|O_TRUNC; the mode is
\* used only when the file is created
WriteFile(f, data) ==
    IF ~(f.dir.exists /\ "x" \in f.dir.mode) THEN [fs |-> f, err |-> "writefile"]
    ELSE IF f.file.exists
         THEN IF "w" \in f.file.mode
              THEN [fs |-> [f EXCEPT !.file.data = data], err |-> "nil"]
              ELSE [fs |-> f, err |-> "writefile"]
         ELSE IF "w" \in f.dir.mode
              THEN [fs |-> [f EXCEPT !.file = [exists |-> TRUE, mode |-> Mode0600,
                                               data |-> data]],
                    err |-> "nil"]
              ELSE [fs |-> f, err |-> "writefile"]

\* the bytes writeStoredToken hands to os.WriteFile
StoredBytes(token) == TrimSpace(token) \o <<"\n">>

\* writeStoredToken
writeStoredToken(f, token) ==
    IF configTokenPath(f) # "nil" THEN [fs |-> f, err |-> configTokenPath(f)]
    ELSE IF MkdirAll(f).err # "nil" THEN [fs |-> f, err |-> MkdirAll(f).err]
    ELSE WriteFile(MkdirAll(f).fs, StoredBytes(token))

\* ----------------------------------------------------------- gh CLI delegate
\* what running `gh auth token` can do: exit status and standard output
GhRuns == {[exit |-> e, out |-> o] : e \in {"ok", "fail"}, o \in Strs}

\* tryGhToken: exec.LookPath, cmd.Output, TrimSpace, empty check
tryGhToken(installed, run) ==
    IF ~installed THEN [token |-> <<>>, err |-> "lookpath"]
    ELSE IF run.exit # "ok" THEN [token |-> <<>>, err |-> "exit"]
    ELSE IF TrimSpace(run.out) = <<>> THEN [token |-> <<>>, err |-> "empty gh token"]
    ELSE [token |-> TrimSpace(run.out), err |-> "nil"]

\* tryGhWebLogin: exec.LookPath, then cmd.Run of `gh auth login --web`
tryGhWebLogin(installed, exit) ==
    IF ~installed THEN "lookpath"
    ELSE IF exit # "ok" THEN "exit" ELSE "nil"

\* ------------------------------------------------------------- device flow
\* how long after the expiry of the device code the polling loop is followed,
\* in seconds
MaxLate == 1
\* longest time one poll's HTTP round trip takes, in seconds
MaxPollSecs == 1

\* pollInterval defaults to 5 when dc.Interval <= 0 (main.go:310-313)
DefaultInterval == 5

PollIntervalFloor(interval) == IF interval <= 0 THEN 1 ELSE interval
PollInterval(interval) == IF interval <= 0 THEN DefaultInterval ELSE interval

\* the values of tr.Error the token endpoint is taken to answer with
OAuthErrors == {"", "authorization_pending", "slow_down", "expired_token",
                "access_denied", "unsupported_grant_type"}

\* what one POST to the token endpoint can come back with: an error of
\* http.Client.Do ("transport"; "canceled" when ctx is cancelled while the
\* request is in flight), a body json cannot decode, or a decoded body
PollResponses ==
    {[kind |-> k, error |-> "", access_token |-> <<>>] :
        k \in {"transport", "decode", "canceled"}}
    \cup
    {[kind |-> "json", error |-> e, access_token |-> <<>>] : e \in OAuthErrors \ {""}}
    \cup
    {[kind |-> "json", error |-> "", access_token |-> t] : t \in Strs}

PollResult(t, c, e, d) == [token |-> t, cont |-> c, err |-> e, detail |-> d]

\* pollDeviceToken: (token, continuePolling, err) for a response
pollDeviceTokenNoTrim(resp) ==
    IF resp.kind = "transport" THEN PollResult(<<>>, TRUE, "transport", "")
    ELSE IF resp.kind = "canceled" THEN PollResult(<<>>, TRUE, "context canceled", "")
    ELSE IF resp.kind = "decode" THEN PollResult(<<>>, TRUE, "decode", "")
    ELSE CASE resp.error = "" ->
                PollResult(resp.access_token, FALSE, "nil", "")
           [] resp.error = "authorization_pending" -> PollResult(<<>>, TRUE, "nil", "")
           [] resp.error = "slow_down" -> PollResult(<<>>, TRUE, "nil", "")
           [] resp.error = "expired_token" ->
                PollResult(<<>>, FALSE, "device code expired", "")
           [] resp.error = "access_denied" ->
                PollResult(<<>>, FALSE, "access denied by user", "")
           [] OTHER -> PollResult(<<>>, FALSE, "oauth error", resp.error)

pollDeviceTokenLenient(resp) ==
    IF resp.kind = "transport" THEN PollResult(<<>>, TRUE, "transport", "")
    ELSE IF resp.kind = "canceled" THEN PollResult(<<>>, TRUE, "context canceled", "")
    ELSE IF resp.kind = "decode" THEN PollResult(<<>>, TRUE, "decode", "")
    ELSE CASE resp.error = "" ->
                PollResult(TrimSpace(resp.access_token), FALSE, "nil", "")
           [] resp.error = "authorization_pending" -> PollResult(<<>>, TRUE, "nil", "")
           [] resp.error = "slow_down" -> PollResult(<<>>, TRUE, "nil", "")
           [] resp.error = "expired_token" ->
                PollResult(<<>>, FALSE, "device code expired", "")
           [] resp.error = "access_denied" ->
                PollResult(<<>>, FALSE, "access denied by user", "")
           [] OTHER -> PollResult(<<>>, TRUE, "nil", "")

pollDeviceToken(resp) ==
    IF resp.kind = "transport" THEN PollResult(<<>>, TRUE, "transport", "")
    ELSE IF resp.kind = "canceled" THEN PollResult(<<>>, TRUE, "context canceled", "")
    ELSE IF resp.kind = "decode" THEN PollResult(<<>>, TRUE, "decode", "")
    ELSE CASE resp.error = "" ->
                PollResult(TrimSpace(resp.access_token), FALSE, "nil", "")
           [] resp.error = "authorization_pending" -> PollResult(<<>>, TRUE, "nil", "")
           [] resp.error = "slow_down" -> PollResult(<<>>, TRUE, "nil", "")
           [] resp.error = "expired_token" ->
                PollResult(<<>>, FALSE, "device code expired", "")
           [] resp.error = "access_denied" ->
                PollResult(<<>>, FALSE, "access denied by user", "")
           [] OTHER -> PollResult(<<>>, FALSE, "oauth error", resp.error)

\* the ticker case of runDeviceFlow's select (main.go:324-334): what the loop
\* does with a poll's result
AfterPollTransient(r) ==
    IF r.err \in {"transport", "decode"}
    THEN [do |-> "continue", token |-> <<>>, err |-> "nil", detail |-> ""]
    ELSE IF r.err # "nil"
         THEN [do |-> "fail", token |-> <<>>, err |-> r.err, detail |-> r.detail]
    ELSE IF r.token # <<>>
         THEN [do |-> "return", token |-> r.token, err |-> "nil", detail |-> ""]
    ELSE IF ~r.cont
         THEN [do |-> "fail", token |-> <<>>, err |-> "authorization declined",
               detail |-> ""]
    ELSE [do |-> "continue", token |-> <<>>, err |-> "nil", detail |-> ""]

AfterPoll(r) ==
    IF r.err # "nil" THEN [do |-> "fail", token |-> <<>>, err |-> r.err, detail |-> r.detail]
    ELSE IF r.token # <<>>
         THEN [do |-> "return", token |-> r.token, err |-> "nil", detail |-> ""]
    ELSE IF ~r.cont
         THEN [do |-> "fail", token |-> <<>>, err |-> "authorization declined",
               detail |-> ""]
    ELSE [do |-> "continue", token |-> <<>>, err |-> "nil", detail |-> ""]

\* ------------------------------------------------------------------- state
VARIABLES
    fs,          \* the token path: home, canMkdir, dir, file
    environ,     \* os.Getenv: GITHUB_TOKEN, GITHUB_OAUTH_CLIENT_ID
    ghInstalled, \* exec.LookPath("gh") succeeds
    server,      \* the device-code response: expires_in, interval, and whether
                 \* verification_uri_complete is present
    pc,          \* position in resolveGitHubToken
    ctxDone,     \* ctx.Done() is closed
    ret,         \* what resolveGitHubToken returned: token, err, source
    steps,       \* the attempts made in this call, in order
    fx,          \* effects of this call: file reads, subprocesses, HTTP, writes
    written,     \* the writeStoredToken call of this call, if any
    output,      \* what this call printed
    df,          \* runDeviceFlow's locals: pollInterval, timer state, polls,
                 \* and the last poll's access_token (raw) and outcome (last)
    calls,       \* resolve calls started
    prev,        \* summary of the previous call
    touched,     \* the user changed the token file since the last call ended
    fs0,         \* the token path as it was when this call started
    st,          \* the last Token Store operation made directly, and its result
    orch         \* main after resolveGitHubToken: position, exit status, the
                 \* remote repository, the commands run and how they ended

vars == <<fs, environ, ghInstalled, server, pc, ctxDone, ret, steps, fx, written,
          output, df, calls, prev, touched, fs0, st, orch>>

NoRet == [token |-> <<>>, err |-> "nil", detail |-> "", source |-> "none"]
NoFx == [reads |-> 0, execs |-> 0, https |-> 0, writes |-> 0]
NoWrite == [attempted |-> FALSE, token |-> <<>>, err |-> "nil"]
NoDf == [interval |-> 0, expires |-> 0, now |-> 0, tick |-> FALSE, polls |-> 0,
         raw |-> <<>>, last |-> "none"]
NoSt == [op |-> "none", wrote |-> FALSE, payload |-> <<>>,
         res |-> [token |-> <<>>, err |-> "nil"]]
\* of the previous call: the credential it acquired from gh or the device
\* flow and stored successfully, if it did
NoPrev == [stored |-> FALSE, token |-> <<>>, touched |-> FALSE]
\* main has not got past the call of resolveGitHubToken
NoOrch == [pc |-> "auth", exit |-> "none", remote |-> "unknown", repo |-> "none",
           log |-> <<>>, files |-> 0, warnings |-> 0]

\* the text of the error of main.go:189
AggregateError == "no token found. Set GITHUB_TOKEN, or install GitHub CLI (gh) to login via web, or set GITHUB_OAUTH_CLIENT_ID to use device OAuth."

ClientIDs == {<<" ">>, <<"c">>}
\* GITHUB_TOKEN: unset, blank, plain, padded, with whitespace inside
EnvTokens == {<<>>, <<"\n">>, <<"a">>, <<" ", "a", "\n">>, <<"a", " ", "a">>}
EnvStates == {[GITHUB_TOKEN |-> t, GITHUB_OAUTH_CLIENT_ID |-> c] :
                t \in EnvTokens, c \in ClientIDs}

\* device-code responses of the runs of the resolver
RunServers == {[expires |-> 2, interval |-> 1, complete |-> FALSE]}

InitWith(fsSet, envSet, serverSet) ==
    /\ fs \in fsSet
    /\ environ \in envSet
    /\ ghInstalled \in BOOLEAN
    /\ server \in serverSet
    /\ pc = "idle"
    /\ ctxDone = FALSE
    /\ ret = NoRet
    /\ steps = <<>>
    /\ fx = NoFx
    /\ written = NoWrite
    /\ output = <<>>
    /\ df = NoDf
    /\ calls = 0
    /\ prev = NoPrev
    /\ touched = FALSE
    /\ fs0 = fs
    /\ st = NoSt
    /\ orch = NoOrch

Init == InitWith(FsStates, EnvStates, RunServers)

\* ---------------------------------------------------------------- resolver
Attempt(step, got, ok) == [step |-> step, got |-> got, ok |-> ok]

Return(tok, e, d, src) ==
    /\ pc' = "done"
    /\ ret' = [token |-> tok, err |-> e, detail |-> d, source |-> src]

PersistAndReturnFatal(tok, src, fx0) ==
    LET w == writeStoredToken(fs, tok) IN
    /\ fs' = w.fs
    /\ written' = [attempted |-> TRUE, token |-> tok, err |-> w.err]
    /\ fx' = [fx0 EXCEPT !.writes = @ + 1]
    /\ IF w.err = "nil" THEN Return(tok, "nil", "", src)
       ELSE Return(<<>>, w.err, "", "none")

\* `_ = writeStoredToken(token); return token, nil` (main.go:164-165, 170-171,
\* 184-185): the result of the write is discarded
PersistAndReturn(tok, src, fx0) ==
    LET w == writeStoredToken(fs, tok) IN
    /\ fs' = w.fs
    /\ written' = [attempted |-> TRUE, token |-> tok, err |-> w.err]
    /\ fx' = [fx0 EXCEPT !.writes = @ + 1]
    /\ Return(tok, "nil", "", src)

\* envToken := strings.TrimSpace(os.Getenv("GITHUB_TOKEN")) (main.go:151)
EnvTokenRaw(e) == e.GITHUB_TOKEN
EnvToken(e) == TrimSpace(e.GITHUB_TOKEN)

\* where resolveGitHubToken goes after each attempt
AfterEnv(envToken) == IF envToken # <<>> THEN "done" ELSE "stored"

AfterStoredRefresh(token) == "ghQuery"
AfterStoredSkipGh(token) == IF token # <<>> THEN "done" ELSE "device"
AfterStored(token) == IF token # <<>> THEN "done" ELSE "ghQuery"

AfterQuery(r) == IF r.err = "nil" /\ r.token # <<>> THEN "done" ELSE "ghLogin"
AfterLoginAlways(err) == "ghRequery"
AfterLogin(err) == IF err = "nil" THEN "ghRequery" ELSE "device"
AfterRequery(r) == IF r.err = "nil" /\ r.token # <<>> THEN "done" ELSE "device"

\* resolveGitHubToken is entered; step 1, the environment (main.go:149-154)
Call ==
    /\ pc = "idle" \/ (pc = "done" /\ calls < MaxCalls)
    /\ calls' = calls + 1
    /\ prev' = IF written.attempted /\ written.err = "nil"
               THEN [stored |-> TRUE, token |-> ret.token, touched |-> touched]
               ELSE NoPrev
    /\ touched' = FALSE
    /\ ctxDone' = FALSE
    /\ written' = NoWrite
    /\ output' = <<>>
    /\ df' = NoDf
    /\ fx' = NoFx
    /\ LET envToken == EnvToken(environ) IN
       /\ steps' = <<Attempt("env", envToken # <<>>, envToken # <<>>)>>
       /\ IF AfterEnv(envToken) = "done"
          THEN Return(envToken, "nil", "", "env")
          ELSE pc' = AfterEnv(envToken) /\ ret' = NoRet
    /\ fs0' = fs
    /\ UNCHANGED <<fs, environ, ghInstalled, server, st, orch>>

\* step 2, the config file (main.go:156-159)
StepStored ==
    /\ pc = "stored"
    /\ LET r == readStoredToken(fs) IN
       /\ steps' = Append(steps, Attempt("stored", r.token # <<>>, r.err = "nil"))
       /\ fx' = [fx EXCEPT !.reads = @ + (IF configTokenPath(fs) = "nil" THEN 1 ELSE 0)]
       /\ IF AfterStored(r.token) = "done"
          THEN Return(r.token, "nil", "", "stored")
          ELSE pc' = AfterStored(r.token) /\ ret' = ret
    /\ UNCHANGED <<fs, environ, ghInstalled, server, ctxDone, written, output, df,
                   calls, prev, touched, fs0, st, orch>>

\* a subprocess is started only when LookPath finds gh
WithExec(f) == [f EXCEPT !.execs = @ + (IF ghInstalled THEN 1 ELSE 0)]

\* step 3, `gh auth token` (main.go:161-166)
StepGhQuery ==
    /\ pc = "ghQuery"
    /\ \E run \in GhRuns :
         LET r == tryGhToken(ghInstalled, run) IN
         /\ steps' = Append(steps, Attempt("ghQuery", r.token # <<>>, r.err = "nil"))
         /\ IF AfterQuery(r) = "done"
            THEN PersistAndReturn(r.token, "gh", WithExec(fx))
            ELSE /\ pc' = AfterQuery(r)
                 /\ fx' = WithExec(fx)
                 /\ UNCHANGED <<fs, ret, written>>
    /\ UNCHANGED <<environ, ghInstalled, server, ctxDone, output, df, calls, prev,
                   touched, fs0, st, orch>>

\* step 4a, `gh auth login --web` (main.go:167-168)
StepGhLogin ==
    /\ pc = "ghLogin"
    /\ \E exit \in {"ok", "fail"} :
         LET err == tryGhWebLogin(ghInstalled, exit) IN
         /\ steps' = Append(steps, Attempt("ghLogin", FALSE, err = "nil"))
         /\ pc' = AfterLogin(err)
    /\ fx' = WithExec(fx)
    /\ UNCHANGED <<fs, environ, ghInstalled, server, ctxDone, ret, written, output,
                   df, calls, prev, touched, fs0, st, orch>>

\* step 4b, the one re-query after a successful login (main.go:169-172)
StepGhRequery ==
    /\ pc = "ghRequery"
    /\ \E run \in GhRuns :
         LET r == tryGhToken(ghInstalled, run) IN
         /\ steps' = Append(steps, Attempt("ghRequery", r.token # <<>>, r.err = "nil"))
         /\ IF AfterRequery(r) = "done"
            THEN PersistAndReturn(r.token, "ghLogin", WithExec(fx))
            ELSE /\ pc' = AfterRequery(r)
                 /\ fx' = WithExec(fx)
                 /\ UNCHANGED <<fs, ret, written>>
    /\ UNCHANGED <<environ, ghInstalled, server, ctxDone, output, df, calls, prev,
                   touched, fs0, st, orch>>

\* http.Client.Do with a request made by NewRequestWithContext (main.go:278,
\* 285, 345, 352): a request whose context is already done is not sent
SendsRequestAlways(done) == TRUE
SendsRequest(done) == ~done

\* what the device-code POST of runDeviceFlow can come back with
InitKinds == {"transport", "status", "decode", "ok"}

\* clientID := strings.TrimSpace(os.Getenv("GITHUB_OAUTH_CLIENT_ID"))
ClientID(e) == TrimSpace(e.GITHUB_OAUTH_CLIENT_ID)

\* the error resolveGitHubToken returns when runDeviceFlow fails
\* (main.go:180-182): the device flow's own error
DeviceFailure(e) == e

\* step 5, the device flow is started (main.go:176-179) and runDeviceFlow
\* runs up to the creation of its ticker and timeout (main.go:272-316);
\* without a client id the call ends in the aggregate error (main.go:189)
StepDevice ==
    /\ pc = "device"
    /\ IF ClientID(environ) = <<>>
       THEN /\ Return(<<>>, AggregateError, "", "none")
            /\ UNCHANGED <<steps, fx, output, df>>
       ELSE /\ steps' = Append(steps, Attempt("device", FALSE, FALSE))
            /\ IF ~SendsRequest(ctxDone)
               THEN \* Do returns the context's error
                    /\ Return(<<>>, DeviceFailure("context canceled"), "request", "none")
                    /\ UNCHANGED <<fx, output, df>>
               ELSE \E kind \in InitKinds :
                    /\ fx' = [fx EXCEPT !.https = @ + 1]
                    /\ IF kind # "ok"
                       THEN /\ Return(<<>>, DeviceFailure(kind), "device code request",
                                      "none")
                            /\ UNCHANGED <<output, df>>
                       ELSE /\ output' = IF server.complete THEN <<"verification_uri_complete">>
                                         ELSE <<"verification_uri", "user_code">>
                            /\ df' = [interval |-> PollInterval(server.interval),
                                      expires |-> server.expires,
                                      now |-> 0, tick |-> FALSE, polls |-> 0,
                                      raw |-> <<>>, last |-> "none"]
                            /\ pc' = "polling"
                            /\ ret' = ret
    /\ UNCHANGED <<fs, environ, ghInstalled, server, ctxDone, written, calls, prev,
                   touched, fs0, st, orch>>

\* what a poll came back with: the error of the request, or tr.Error
PollLast(resp) == IF resp.kind = "json" THEN resp.error ELSE resp.kind

\* the text of the error of main.go:323
ExpiredError == "device code expired; please try again"

\* the channels of the select of main.go:319-324
TimeoutReadyLate == df.now > df.expires
TimeoutReady == df.now >= df.expires
TickReady == df.tick
SelectReady == ctxDone \/ TimeoutReady \/ TickReady

TicksInEverySecond(from, to, interval) == to > from
TicksIn(from, to, interval) == \E k \in (from + 1)..to : k % interval = 0

\* the goroutine is blocked in select and a second passes
Advance ==
    /\ pc = "polling"
    /\ ~SelectReady
    /\ df' = [df EXCEPT !.now = @ + 1,
                        !.tick = TicksIn(df.now, df.now + 1, df.interval)]
    /\ UNCHANGED <<fs, environ, ghInstalled, server, pc, ctxDone, ret, steps, fx,
                   written, output, calls, prev, touched, fs0, st, orch>>

\* case <-ctx.Done() (main.go:320-321)
SelectCtxDone ==
    /\ pc = "polling"
    /\ ctxDone
    /\ Return(<<>>, DeviceFailure("context canceled"), "select", "none")
    /\ UNCHANGED <<fs, environ, ghInstalled, server, ctxDone, steps, fx, written,
                   output, df, calls, prev, touched, fs0, st, orch>>

\* case <-timeout (main.go:322-323)
SelectTimeout ==
    /\ pc = "polling"
    /\ TimeoutReady
    /\ Return(<<>>, DeviceFailure(ExpiredError), "", "none")
    /\ UNCHANGED <<fs, environ, ghInstalled, server, ctxDone, steps, fx, written,
                   output, df, calls, prev, touched, fs0, st, orch>>

\* case <-ticker.C (main.go:324-334): one pollDeviceToken, and what
\* resolveGitHubToken does with runDeviceFlow's result (main.go:180-187)
SelectTicker ==
    /\ pc = "polling"
    /\ TickReady
    /\ IF ~SendsRequest(ctxDone)
       THEN \* Do returns the context's error
            /\ Return(<<>>, DeviceFailure("context canceled"), "request", "none")
            /\ df' = [df EXCEPT !.tick = FALSE]
            /\ UNCHANGED <<fs, ctxDone, steps, fx, written>>
       ELSE \E resp \in PollResponses, secs \in 0..MaxPollSecs :
            LET a == AfterPoll(pollDeviceToken(resp))
                fx1 == [fx EXCEPT !.https = @ + 1]
            IN
            /\ df.now + secs <= df.expires + MaxLate
            /\ ctxDone' = (ctxDone \/ resp.kind = "canceled")
            /\ df' = [df EXCEPT !.now = @ + secs,
                                !.tick = TicksIn(df.now, df.now + secs, df.interval),
                                !.polls = @ + 1,
                                !.raw = resp.access_token,
                                !.last = PollLast(resp)]
            /\ CASE a.do = "continue" ->
                      /\ fx' = fx1
                      /\ UNCHANGED <<fs, pc, ret, steps, written>>
                 [] a.do = "fail" ->
                      /\ fx' = fx1
                      /\ Return(<<>>, DeviceFailure(a.err), a.detail, "none")
                      /\ UNCHANGED <<fs, steps, written>>
                 [] a.do = "return" ->
                      IF a.token # <<>>
                      THEN /\ steps' = [steps EXCEPT ![Len(steps)].got = TRUE,
                                                     ![Len(steps)].ok = TRUE]
                           /\ PersistAndReturn(a.token, "device", fx1)
                      ELSE /\ fx' = fx1
                           /\ Return(<<>>, AggregateError, "", "none")
                           /\ UNCHANGED <<fs, steps, written>>
    /\ UNCHANGED <<environ, ghInstalled, server, output, calls, prev,
                   touched, fs0, st, orch>>

\* the caller cancels ctx; before the device flow nothing looks at ctx, so
\* cancellation is taken to arrive from the start of step 5 on
Cancel ==
    /\ pc \in {"device", "polling"}
    /\ ~ctxDone
    /\ ctxDone' = TRUE
    /\ UNCHANGED <<fs, environ, ghInstalled, server, pc, ret, steps, fx, written,
                   output, df, calls, prev, touched, fs0, st, orch>>

\* between two runs the user deletes the token file (README, Configuration)
UserDeleteToken ==
    /\ pc = "done"
    /\ calls < MaxCalls
    /\ ~touched
    /\ fs.file.exists
    /\ {"w", "x"} \subseteq fs.dir.mode
    /\ fs' = [fs EXCEPT !.file = NoFile]
    /\ touched' = TRUE
    /\ UNCHANGED <<environ, ghInstalled, server, pc, ctxDone, ret, steps, fx,
                   written, output, df, calls, prev, fs0, st, orch>>

Next ==
    \/ Call
    \/ StepStored
    \/ StepGhQuery
    \/ StepGhLogin
    \/ StepGhRequery
    \/ StepDevice
    \/ Advance
    \/ SelectCtxDone
    \/ SelectTimeout
    \/ SelectTicker
    \/ Cancel
    \/ UserDeleteToken

Spec == Init /\ [][Next]_vars

\* -------------------------------------------------- the Token Store by itself
\* write(payload) called directly (main.go:213-222)
StoreWrite ==
    /\ \E p \in Strs :
         LET w == writeStoredToken(fs, p) IN
         /\ fs' = w.fs
         /\ st' = IF w.err = "nil"
                  THEN [op |-> "write", wrote |-> TRUE, payload |-> p,
                        res |-> [token |-> <<>>, err |-> "nil"]]
                  ELSE [st EXCEPT !.op = "write",
                                  !.res = [token |-> <<>>, err |-> w.err]]
    /\ UNCHANGED <<environ, ghInstalled, server, pc, ctxDone, ret, steps, fx,
                   written, output, df, calls, prev, touched, fs0, orch>>

\* read() called directly (main.go:201-211)
StoreRead ==
    /\ st' = [st EXCEPT !.op = "read", !.res = readStoredToken(fs)]
    /\ UNCHANGED <<fs, environ, ghInstalled, server, pc, ctxDone, ret, steps, fx,
                   written, output, df, calls, prev, touched, fs0, orch>>

StoreNext == StoreWrite \/ StoreRead

SpecStore == Init /\ [][StoreNext]_vars

\* ---------------------------------------------- one run, into the device flow
\* device-code responses (main.go:253-260): expires_in and interval are ints,
\* 0 when the field is absent; verification_uri_complete may be there or not
DeviceServers ==
    {[expires |-> 7, interval |-> 2, complete |-> FALSE],
     [expires |-> 16, interval |-> 0, complete |-> FALSE],
     [expires |-> 6, interval |-> -1, complete |-> TRUE],
     [expires |-> 2, interval |-> 1, complete |-> FALSE],
     [expires |-> 1, interval |-> 2, complete |-> FALSE],
     [expires |-> 0, interval |-> 0, complete |-> FALSE],
     [expires |-> -1, interval |-> 1, complete |-> TRUE]}

\* no GITHUB_TOKEN and no stored token, so that the run gets past step 2; the
\* token directory can be created or not
DeviceFs == {f \in FsStates : f.home /\ ~f.dir.exists}
DeviceEnvs == {e \in EnvStates : e.GITHUB_TOKEN = <<>>}

InitDevice == InitWith(DeviceFs, DeviceEnvs, DeviceServers)

\* the one call of resolveGitHubToken a run of the program makes (main.go:29)
FirstCall == pc = "idle" /\ Call

DeviceNext ==
    \/ FirstCall
    \/ StepStored
    \/ StepGhQuery
    \/ StepGhLogin
    \/ StepGhRequery
    \/ StepDevice
    \/ Advance
    \/ SelectCtxDone
    \/ SelectTimeout
    \/ SelectTicker
    \/ Cancel

SpecDevice == InitDevice /\ [][DeviceNext]_vars

\* --------------------------------------------- main, after the credential
\* files of the directory that main stages one by one (main.go:107-114)
MaxFiles == 1

resolverVars == <<fs, environ, ghInstalled, server, pc, ctxDone, ret, steps, fx,
                  written, output, df, calls, prev, touched, fs0, st>>

\* a call of the GitHub API or a git subprocess, and how it ended
Ran(o, cmd, res) == [o EXCEPT !.log = Append(@, [cmd |-> cmd, res |-> res])]
\* log.Fatal: the process exits with status 1
Fatal(o) == [o EXCEPT !.pc = "exit", !.exit = "nonzero"]
\* log.Printf("Warning: ..."): the run goes on
Warned(o) == [o EXCEPT !.warnings = @ + 1]
Goto(o, p) == [o EXCEPT !.pc = p]
\* `if err := execCmd(...); err != nil { log.Fatal(...) }`
FatalUnless(o, cmd, res, p) ==
    IF res = "ok" THEN Goto(Ran(o, cmd, res), p) ELSE Fatal(Ran(o, cmd, res))
Outcomes == {"ok", "fail"}

\* main.go:29-32
MainAuth ==
    /\ pc = "done"
    /\ orch.pc = "auth"
    /\ orch' = IF ret.err # "nil" \/ ret.token = <<>> THEN Fatal(orch)
               ELSE Goto(orch, "create")
    /\ UNCHANGED resolverVars

\* client.Repositories.Create (main.go:55-75): the repository is created, or
\* GitHub answers 422 because the user has one of that name, or the call fails
\* in another way
MainCreate ==
    /\ orch.pc = "create"
    /\ \E remote \in {"absent", "empty", "nonempty"}, res \in {"ok", "422", "fail"} :
         /\ res = "ok" => remote = "absent"
         /\ res = "422" => remote # "absent"
         /\ LET o == Ran([orch EXCEPT !.remote = remote], "create", res) IN
            orch' = CASE res = "ok" -> Goto([o EXCEPT !.repo = "created"], "init")
                      [] res = "422" -> Goto(o, "getUser")
                      [] OTHER -> Fatal(o)
    /\ UNCHANGED resolverVars

\* client.Users.Get (main.go:59-62)
MainGetUser ==
    /\ orch.pc = "getUser"
    /\ \E res \in Outcomes : orch' = FatalUnless(orch, "get user", res, "getRepo")
    /\ UNCHANGED resolverVars

\* client.Repositories.Get (main.go:65-69)
MainGetRepo ==
    /\ orch.pc = "getRepo"
    /\ \E res \in Outcomes :
         orch' = FatalUnless([orch EXCEPT !.repo = IF res = "ok" THEN "existing" ELSE @],
                             "get repo", res, "init")
    /\ UNCHANGED resolverVars

\* git init, when there is no .git (main.go:78-82)
MainInit ==
    /\ orch.pc = "init"
    /\ \E dotGit \in BOOLEAN, res \in Outcomes :
         orch' = IF dotGit THEN Goto(orch, "remoteRemove")
                 ELSE FatalUnless(orch, "init", res, "remoteRemove")
    /\ UNCHANGED resolverVars

\* git remote remove origin (main.go:85-86): the error is ignored
MainRemoteRemove ==
    /\ orch.pc = "remoteRemove"
    /\ \E res \in Outcomes : orch' = Goto(Ran(orch, "remote remove", res), "remoteAdd")
    /\ UNCHANGED resolverVars

\* git remote add origin (main.go:89-92)
MainRemoteAdd ==
    /\ orch.pc = "remoteAdd"
    /\ \E res \in Outcomes : orch' = FatalUnless(orch, "remote add", res, "addIgnore")
    /\ UNCHANGED resolverVars

\* git add .gitignore, when there is one (main.go:95-99): a failure is a warning
MainAddIgnore ==
    /\ orch.pc = "addIgnore"
    /\ \E has \in BOOLEAN, res \in Outcomes :
         orch' = IF ~has THEN Goto(orch, "readDir")
                 ELSE IF res = "ok" THEN Goto(Ran(orch, "add", res), "readDir")
                 ELSE Goto(Warned(Ran(orch, "add", res)), "readDir")
    /\ UNCHANGED resolverVars

\* os.ReadDir(".") (main.go:102-105)
MainReadDir ==
    /\ orch.pc = "readDir"
    /\ \E res \in Outcomes, n \in 0..MaxFiles :
         orch' = IF res = "ok" THEN Goto([orch EXCEPT !.files = n], "stage")
                 ELSE Fatal(orch)
    /\ UNCHANGED resolverVars

\* git add <name> for the next file (main.go:107-114): a failure is a warning
MainAddFile ==
    /\ orch.pc = "stage"
    /\ orch.files > 0
    /\ \E res \in Outcomes :
         LET o == Ran([orch EXCEPT !.files = @ - 1], "add", res) IN
         orch' = IF res = "ok" THEN o ELSE Warned(o)
    /\ UNCHANGED resolverVars

\* git commit (main.go:117-119)
MainCommit ==
    /\ orch.pc = "stage"
    /\ orch.files = 0
    /\ \E res \in Outcomes : orch' = FatalUnless(orch, "commit", res, "branch")
    /\ UNCHANGED resolverVars

\* git rev-parse --abbrev-ref HEAD (main.go:122-127)
MainBranch ==
    /\ orch.pc = "branch"
    /\ \E res \in Outcomes : orch' = FatalUnless(orch, "branch", res, "push")
    /\ UNCHANGED resolverVars

\* git push -u origin <branch> (main.go:130-134); main returns
MainPush ==
    /\ orch.pc = "push"
    /\ \E res \in Outcomes :
         orch' = IF res = "ok" THEN [Ran(orch, "push", res) EXCEPT !.pc = "exit",
                                                                  !.exit = "zero"]
                 ELSE Fatal(Ran(orch, "push", res))
    /\ UNCHANGED resolverVars

\* a run of main: ctx is context.Background(), which is never cancelled
MainNext ==
    \/ FirstCall
    \/ StepStored
    \/ StepGhQuery
    \/ StepGhLogin
    \/ StepGhRequery
    \/ StepDevice
    \/ Advance
    \/ SelectTimeout
    \/ SelectTicker
    \/ MainAuth
    \/ MainCreate
    \/ MainGetUser
    \/ MainGetRepo
    \/ MainInit
    \/ MainRemoteRemove
    \/ MainRemoteAdd
    \/ MainAddIgnore
    \/ MainReadDir
    \/ MainAddFile
    \/ MainCommit
    \/ MainBranch
    \/ MainPush

MainFs == {f \in DeviceFs : f.canMkdir}
InitMain == InitWith(MainFs, DeviceEnvs, RunServers)

SpecMain == InitMain /\ [][MainNext]_vars

\* ================================================================== claims
Done == pc = "done"
Succeeded == Done /\ ret.err = "nil"
Fallbacks == {"gh", "ghLogin", "device"}
StepNames == [i \in 1..Len(steps) |-> steps[i].step]
IsPrefix(p, q) == Len(p) <= Len(q) /\ SubSeq(q, 1, Len(p)) = p
StoredReadable(f) == readStoredToken(f).token # <<>>

\* the orders of attempts C1 allows: with and without the re-query
StepOrders == {<<"env", "stored", "ghQuery", "ghLogin", "ghRequery", "device">>,
               <<"env", "stored", "ghQuery", "ghLogin", "device">>}

\* C1: the attempts of a resolve call follow the fixed order environment,
\* stored file, gh query, gh login with one re-query, device flow; an attempt
\* is made only when every earlier one was made and failed, the re-query only
\* after a successful login, and nothing is attempted after a success.
C1_FixedOrder ==
    /\ \E q \in StepOrders : IsPrefix(StepNames, q)
    /\ \A i \in 1..Len(steps) :
         /\ i < Len(steps) => ~steps[i].got
         /\ steps[i].step = "ghRequery" => steps[i - 1].ok
         /\ (steps[i].step = "device" /\ steps[i - 1].step = "ghLogin")
               => ~steps[i - 1].ok
    /\ (steps # <<>> /\ steps[Len(steps)].got) => Succeeded
    /\ Succeeded => steps[Len(steps)].got /\ ret.token # <<>>

C1_Witness ==
    /\ Succeeded
    /\ StepNames = <<"env", "stored", "ghQuery", "ghLogin", "ghRequery", "device">>

\* C2: with a non-blank GITHUB_TOKEN resolve returns exactly the trimmed
\* value and reads no file, starts no subprocess, makes no HTTP request and
\* writes nothing.
C2_EnvShortCircuit ==
    (Done /\ TrimSpace(environ.GITHUB_TOKEN) # <<>>) =>
        /\ ret.err = "nil"
        /\ ret.token = TrimSpace(environ.GITHUB_TOKEN)
        /\ fx = NoFx
        /\ ~written.attempted
        /\ touched \/ fs = fs0

C2_Witness ==
    /\ Done
    /\ environ.GITHUB_TOKEN = <<" ", "a", "\n">>
    /\ ret.token = <<"a">>
    /\ StoredReadable(fs)
    /\ ghInstalled

\* the parts of C3
HoldsCredential(f) == f.file.exists /\ TrimSpace(f.file.data) # <<>>

C3_ReturnsStored ==
    (Done /\ TrimSpace(environ.GITHUB_TOKEN) = <<>> /\ StoredReadable(fs0)) =>
        /\ ret.err = "nil"
        /\ ret.source = "stored"
        /\ ret.token = TrimSpace(fs0.file.data)
        /\ fx.execs = 0 /\ fx.https = 0 /\ fx.writes = 0
        /\ touched \/ fs = fs0

C3_ReachesGhOnlyWithout == Len(steps) >= 3 => ~StoredReadable(fs0)

\* C3 as stated: with a blank GITHUB_TOKEN and a readable, non-blank stored
\* file resolve returns the stored credential and leaves the file alone; the
\* program never deletes the file and never replaces a non-blank stored
\* credential; a call reaches gh or the device flow only when it found no
\* stored credential.
C3_Original ==
    /\ []C3_ReturnsStored
    /\ [][pc # "done" =>
            /\ fs.file.exists => fs'.file.exists
            /\ HoldsCredential(fs) => fs'.file = fs.file]_vars
    /\ []C3_ReachesGhOnlyWithout

\* C3 as amended: the stored credential that is never replaced is one the
\* program can read; a non-blank file it cannot read but can write is
\* overwritten.
C3_Amended ==
    /\ []C3_ReturnsStored
    /\ [][pc # "done" =>
            /\ fs.file.exists => fs'.file.exists
            /\ StoredReadable(fs) => fs' = fs]_vars
    /\ []C3_ReachesGhOnlyWithout

C3_Witness ==
    /\ Done
    /\ calls = 2
    /\ ~touched
    /\ TrimSpace(environ.GITHUB_TOKEN) = <<>>
    /\ ret.source = "stored"
    /\ prev.stored
    /\ ret.token = prev.token

\* the parts of C4
C4_WriteAttempted ==
    (Succeeded /\ ret.source \in Fallbacks) =>
        written.attempted /\ written.token = ret.token

NextCallAfterStore ==
    Done /\ prev.stored /\ ~prev.touched /\ TrimSpace(environ.GITHUB_TOKEN) = <<>>

ServedFromStore ==
    /\ ret.err = "nil"
    /\ ret.source = "stored"
    /\ ret.token = prev.token
    /\ fx.execs = 0 /\ fx.https = 0

\* C4 as stated: a credential returned from gh or the device flow was handed
\* to writeStoredToken before the call returned, and when that write
\* succeeded the next call with a blank GITHUB_TOKEN returns the same
\* credential from the stored file, with no subprocess and no HTTP request.
C4_Original == C4_WriteAttempted /\ (NextCallAfterStore => ServedFromStore)

\* what is left of C4 when the file that was written is owner-readable, as a
\* file created by writeStoredToken is
C4_WhenReadable ==
    /\ C4_WriteAttempted
    /\ (NextCallAfterStore /\ "r" \in fs0.file.mode) => ServedFromStore

\* C5 as stated: whenever a resolve call fails, the error is the aggregate
\* error that names the three remedies, also after a failed device flow.
C5_Original == (Done /\ ret.err # "nil") => ret.err = AggregateError

\* C6: a failed write of the stored credential does not fail the call: the
\* credential handed to writeStoredToken is returned with a nil error.
C6_WriteFailureNotFatal ==
    (Done /\ written.attempted /\ written.err # "nil") =>
        /\ ret.err = "nil"
        /\ ret.token = written.token
        /\ ret.source \in Fallbacks
        /\ ret.token # <<>>

C6_Witness ==
    /\ Done
    /\ ret.source = "device"
    /\ written.attempted
    /\ written.err = "writefile"
    /\ ret.token = <<"a">>

\* C7 as stated: when the write of the stored credential fails, a warning
\* about it was printed before resolve returned.
C7_Original ==
    (Done /\ written.attempted /\ written.err # "nil") =>
        \E i \in 1..Len(output) : output[i] = "warning"

\* C8: a credential returned without error, and a credential handed to
\* writeStoredToken, is non-empty and has no whitespace at either end; a
\* token response with no error and a blank access_token yields no credential.
C8_CredentialInvariant ==
    /\ Succeeded => IsCredential(ret.token)
    /\ written.attempted => IsCredential(written.token)
    /\ (written.attempted /\ written.err = "nil" /\ ~touched) =>
          fs.file.exists /\ fs.file.data = written.token \o <<"\n">>
    /\ (Done /\ df.polls > 0 /\ TrimSpace(df.raw) = <<>>) =>
          ret.err # "nil" /\ ret.token = <<>> /\ ~written.attempted

C8_Witness ==
    /\ Succeeded
    /\ ret.source = "device"
    /\ df.raw = <<" ", "a", "\n">>
    /\ ret.token = <<"a">>
    /\ written.attempted

\* the parts of C9
ReadAfterWrite == st.op = "read" /\ st.wrote /\ TrimSpace(st.payload) # <<>>

RoundTrip == st.res.err = "nil" /\ st.res.token = TrimSpace(st.payload)

\* C9 as stated (Token Store alone): after successful writes, read returns
\* the last written payload, trimmed, whenever that payload is not blank;
\* nothing of an earlier write is left.
C9_Original == ReadAfterWrite => RoundTrip

\* what is left of C9 when the file that was written is owner-readable
C9_WhenReadable == (ReadAfterWrite /\ "r" \in fs.file.mode) => RoundTrip

\* the three cases of C10
FileAbsent == ~fs.home \/ ~fs.dir.exists \/ ~fs.file.exists
FileUnreadable == ~FileAbsent /\ ReadFile(fs).err # "nil"
FileBlank == ~FileAbsent /\ ~FileUnreadable /\ TrimSpace(fs.file.data) = <<>>

\* C10 as stated (Token Store alone): read fails with an error when the file
\* is absent, when it cannot be read, and when its content is blank.
C10_Original ==
    (st.op = "read" /\ (FileAbsent \/ FileUnreadable \/ FileBlank)) =>
        st.res.err # "nil"

\* what the code does in the three cases: an error for an absent or unreadable
\* file, the empty string with a nil error for a blank one
C10_AsCoded ==
    st.op = "read" =>
        /\ (FileAbsent \/ FileUnreadable) => (st.res.err # "nil" /\ st.res.token = <<>>)
        /\ FileBlank => (st.res.err = "nil" /\ st.res.token = <<>>)

\* the permissions C11 asks for
OwnerOnlyFile(f) == f.file.exists /\ f.file.mode = Mode0600
OwnerOnlyDir(f) == f.dir.exists /\ {"x"} \subseteq f.dir.mode /\ "o" \notin f.dir.mode

\* C11 as stated (Token Store alone): after a successful write, whatever the
\* path was before, the token file is readable and writable by its owner only
\* and its directory is accessible by its owner only.
C11_Original == st.wrote => (OwnerOnlyFile(fs) /\ OwnerOnlyDir(fs))

\* what the code gives: the modes are those of creation; a directory or a
\* file that was already there keeps the mode it had
C11_AsCoded ==
    st.wrote =>
        /\ fs.dir.mode = (IF fs0.dir.exists THEN fs0.dir.mode ELSE Mode0700)
        /\ fs.file.mode = (IF fs0.file.exists THEN fs0.file.mode ELSE Mode0600)

\* ---------------------------------------------------------- the device flow
InPolling == pc = "polling"
Polled == df'.polls = df.polls + 1

\* C12 as stated: once the time since initiation has reached expires_in, the
\* flow issues no further poll and fails with the expiry error, whatever a
\* poll would answer, also when a tick is ready at the same moment (a
\* cancellation arriving at that moment set aside).
C12_Original ==
    [][(InPolling /\ TimeoutReady /\ ~ctxDone /\ ~ctxDone') =>
          (pc' = "done" /\ ret'.err = ExpiredError /\ df'.polls = df.polls)]_vars

\* what the code gives: the expiry wins for certain only when no tick is
\* waiting in ticker.C; with both channels ready select takes either case
C12_AsCoded ==
    [][(InPolling /\ TimeoutReady /\ ~TickReady /\ ~ctxDone /\ ~ctxDone') =>
          (pc' = "done" /\ ret'.err = ExpiredError /\ df'.polls = df.polls)]_vars

Granted == df.last = "" /\ TrimSpace(df.raw) # <<>>
FromDevice == Succeeded /\ ret.source = "device"

\* C13: a poll is issued only on a tick, the k-th no earlier than k intervals
\* after polling started; a poll answered with a credential ends the call
\* with exactly that credential, so that after n polls answered pending or
\* slow_down and one answered with c the call returns c at n+1 intervals or
\* later, with n+1 polls made and none after.
C13_PollTiming ==
    /\ [][Polled => (InPolling /\ TickReady
                     /\ df.now >= df'.polls * df.interval)]_vars
    /\ [][(Polled /\ Granted') =>
             (pc' = "done" /\ ret'.err = "nil" /\ ret'.source = "device"
              /\ ret'.token = TrimSpace(df'.raw))]_vars
    /\ [](FromDevice =>
             (Granted /\ ret.token = TrimSpace(df.raw)
              /\ df.now >= df.polls * df.interval
              /\ fx.https = df.polls + 1))

C13_Witness ==
    /\ FromDevice
    /\ df.interval = DefaultInterval
    /\ df.polls = 3
    /\ df.now < df.expires
    /\ ret.token = <<"a">>

\* the error codes pollDeviceToken knows, and the other answers of a poll
KnownErrors == {"", "authorization_pending", "slow_down", "expired_token",
                "access_denied"}
RequestErrors == {"transport", "decode", "canceled", "none"}
UnknownError(code) == code \notin KnownErrors \cup RequestErrors

\* the error C14 asks for after a poll answered with code
TerminalError(code) ==
    IF code = "access_denied" THEN [err |-> "access denied by user", detail |-> ""]
    ELSE IF code = "expired_token" THEN [err |-> "device code expired", detail |-> ""]
    ELSE [err |-> "oauth error", detail |-> code]

Terminal(code) == code \in {"access_denied", "expired_token"} \/ UnknownError(code)

\* C14: a poll answered access_denied, expired_token or an error code the
\* client does not know ends the flow in that step, with the denial error,
\* the expiry error, or the protocol error that carries the code; no
\* credential is returned or written and no poll follows.
C14_TerminalOutcomes ==
    /\ [][(Polled /\ Terminal(df'.last)) =>
             (/\ pc' = "done"
              /\ ret'.token = <<>>
              /\ ret'.err = TerminalError(df'.last).err
              /\ ret'.detail = TerminalError(df'.last).detail
              /\ ~written'.attempted)]_vars
    /\ [][(Terminal(df.last) /\ df'.polls # df.polls) => df'.polls = 0]_vars

C14_Witness ==
    /\ Done
    /\ ret.err = "oauth error"
    /\ ret.detail = "unsupported_grant_type"
    /\ df.polls = 2
    /\ df.now < df.expires

CanceledError == "context canceled"

\* what a step that ends the flow after a cancellation leaves behind
EndsCanceled(errs) ==
    /\ pc' = "done"
    /\ ret'.err \in errs
    /\ ret'.token = <<>>
    /\ fs' = fs
    /\ ~written'.attempted

\* C15 as stated: with ctx cancelled during polling, the next step of the
\* flow returns the cancellation error, also when a tick is ready at that
\* moment; no request is sent after the cancellation, a request in flight is
\* given up, and nothing is written.
C15_Original ==
    /\ [][(InPolling /\ ctxDone) =>
             (EndsCanceled({CanceledError}) /\ fx'.https = fx.https)]_vars
    /\ [][(InPolling /\ ~ctxDone /\ ctxDone' /\ Polled) =>
             EndsCanceled({CanceledError})]_vars

\* C15 as amended: when the expiry is due at the moment of the cancellation
\* the flow may end with the expiry error instead.
C15_Amended ==
    /\ [][(InPolling /\ ctxDone) =>
             (/\ EndsCanceled(IF TimeoutReady THEN {CanceledError, ExpiredError}
                              ELSE {CanceledError})
              /\ fx'.https = fx.https)]_vars
    /\ [][(InPolling /\ ~ctxDone /\ ctxDone' /\ Polled) =>
             EndsCanceled({CanceledError})]_vars

\* cancelled with a tick waiting, and the select took the ticker case
C15_Witness ==
    /\ Done
    /\ ctxDone
    /\ ret.err = CanceledError
    /\ ret.detail = "request"
    /\ df.polls = 1
    /\ df.last = "authorization_pending"
    /\ fx.https = 2
    /\ ~df.tick

Transient == {"authorization_pending", "slow_down"}

\* C16: in every polling state the interval is the one fixed when polling
\* started: the server's interval when that is positive, 5 otherwise; no step
\* of the loop changes it, and a poll answered authorization_pending or
\* slow_down leaves the flow polling.
C16_FixedInterval ==
    /\ [](InPolling =>
             /\ server.interval > 0 => df.interval = server.interval
             /\ server.interval <= 0 => df.interval = DefaultInterval)
    /\ [][InPolling => df'.interval = df.interval]_vars
    /\ [][(Polled /\ df'.last \in Transient) => pc' = "polling"]_vars

C16_Witness ==
    /\ InPolling
    /\ server.interval <= 0
    /\ df.interval = DefaultInterval
    /\ df.polls = 2
    /\ df.last = "slow_down"

\* ------------------------------------------------------------------- main
Failed(i) == orch.log[i].res = "fail"
FatalAt(i) == i = Len(orch.log) /\ orch.pc = "exit" /\ orch.exit = "nonzero"
GitCmds == {"init", "remote remove", "remote add", "add", "commit", "branch", "push"}
LocalChange == \E i \in 1..Len(orch.log) : orch.log[i].cmd \in GitCmds

\* C17 as stated: a failed repository creation (other than the 422 of an
\* existing repository), API call or git command is the last thing the run
\* does: the process exits with a non-zero status, nothing runs after it and
\* it is not run again.
C17_Original == \A i \in 1..Len(orch.log) : Failed(i) => FatalAt(i)

\* what the code gives: fatal, except for `git remote remove`, whose error is
\* ignored, and `git add`, whose failure is a warning
C17_AsCoded ==
    \A i \in 1..Len(orch.log) :
        Failed(i) =>
            IF orch.log[i].cmd \in {"remote remove", "add"}
            THEN orch.log[i].cmd = "add" => orch.warnings > 0
            ELSE FatalAt(i)

Rejected422 == orch.log # <<>> /\ orch.log[1].res = "422"
LookedUp ==
    /\ Len(orch.log) >= 3
    /\ orch.log[2] = [cmd |-> "get user", res |-> "ok"]
    /\ orch.log[3] = [cmd |-> "get repo", res |-> "ok"]
    /\ orch.repo = "existing"
CreateFailed == orch.log # <<>> /\ orch.log[1].res = "fail"

\* C18 as stated: after a 422 the run goes on to git only when it has looked
\* up the user's existing repository and that repository is empty; after any
\* other failure of the creation no git command is run.
C18_Original ==
    /\ (Rejected422 /\ LocalChange) => (LookedUp /\ orch.remote = "empty")
    /\ CreateFailed => (~LocalChange /\ FatalAt(1))

\* what the code gives: after a 422 and the two lookups the run goes on,
\* whatever the existing repository holds
C18_AsCoded ==
    /\ (Rejected422 /\ LocalChange) => LookedUp
    /\ CreateFailed => (~LocalChange /\ FatalAt(1))

\* --------------------------------------------------- how often, in one call
Times(names) == Cardinality({i \in 1..Len(steps) : steps[i].step \in names})
FirstQueryFailedBefore(i) ==
    \E j \in 1..(i - 1) : steps[j].step = "ghQuery" /\ ~steps[j].got

\* C19: in one call `gh auth token` runs at most twice, the second time only
\* after the first failed and `gh auth login` then succeeded; the login runs
\* at most once and only after the first query failed; the device flow is
\* started at most once; writeStoredToken is called at most once.
C19_AtMostOnce ==
    /\ Times({"ghQuery", "ghRequery"}) <= 2
    /\ Times({"ghQuery"}) <= 1
    /\ Times({"ghLogin"}) <= 1
    /\ Times({"device"}) <= 1
    /\ \A i \in 1..Len(steps) :
         /\ steps[i].step = "ghLogin" => FirstQueryFailedBefore(i)
         /\ steps[i].step = "ghRequery" =>
               /\ FirstQueryFailedBefore(i)
               /\ steps[i - 1].step = "ghLogin" /\ steps[i - 1].ok
    /\ fx.execs <= 3
    /\ fx.writes <= 1
    /\ fx.writes = (IF written.attempted THEN 1 ELSE 0)

C19_Witness ==
    /\ Succeeded
    /\ StepNames = <<"env", "stored", "ghQuery", "ghLogin", "ghRequery", "device">>
    /\ fx.execs = 3
    /\ fx.writes = 1
    /\ df.polls = 2

\* C20: a poll whose request fails or whose body cannot be decoded ends the
\* device flow in that step with that error, expired or not; the call returns
\* no credential, writes nothing and polls no more.
C20_PollErrorEndsFlow ==
    /\ [][(Polled /\ df'.last \in {"transport", "decode"}) =>
             (/\ pc' = "done"
              /\ ret'.err = df'.last
              /\ ret'.token = <<>>
              /\ fs' = fs
              /\ ~written'.attempted)]_vars
    /\ []((InPolling /\ df.polls > 0) => df.last \in Transient)

C20_Witness ==
    /\ Done
    /\ ret.err = "decode"
    /\ df.last = "decode"
    /\ df.polls = 1
    /\ df.now < df.expires
    /\ ~ctxDone

\* the polling loop was entered and expires_in is shorter than the interval
ShortLived == df.interval > 0 /\ df.expires < df.interval

\* C21: with expires_in absent, zero or negative the flow fails with the
\* expiry error at once and without a poll, and in general no poll is issued
\* when expires_in is smaller than the poll interval: the only request made
\* is the one for the device code (a cancellation by the caller set aside).
C21_NoPollWhenShort ==
    /\ ShortLived => (df.polls = 0 /\ ~df.tick /\ fx.https = 1)
    /\ (ShortLived /\ Done /\ ~ctxDone) =>
          (ret.err = ExpiredError /\ ret.token = <<>> /\ ~written.attempted)
    /\ (ShortLived /\ server.expires <= 0) => df.now = 0

C21_Witness ==
    /\ Done
    /\ ~ctxDone
    /\ server.expires = 0
    /\ df.interval = DefaultInterval
    /\ ret.err = ExpiredError
    /\ df.polls = 0
    /\ fx.https = 1

\* the same with a positive expires_in below the interval
C21_WitnessPositive ==
    /\ Done
    /\ server.expires = 1
    /\ df.interval = 2
    /\ df.now = 1
    /\ ret.err = ExpiredError
    /\ df.polls = 0

====
